---- MODULE Spec2Model ----
(***************************************************************************)
(* Flight-dynamics engine of the flight simulator (AircraftPhysics), its   *)
(* geofence, its update listeners, the map synchronizer of ThreeJsManager  *)
(* and the heading readout of the instrument panel.                        *)
(*                                                                         *)
(* Numbers.  The program computes in IEEE doubles; the model computes in   *)
(* fixed point with integers, every product rounded toward zero:           *)
(*   lengths, speeds, angles (rad), angular rates, throttle, control       *)
(*   values, factors ......................... thousandths (S = 1000)      *)
(*   heading/pitch/roll/bank angles in degrees  thousandths of a degree    *)
(*   timestamps ............................... milliseconds               *)
(*   longitude/latitude ....................... millionths of a degree,    *)
(*                                              relative to DEFAULT_CENTER *)
(*   distances on the map ..................... metres (thousandths of km) *)
(* sin, cos, tan, x^1.2 and the haversine distance are computed by the     *)
(* closed forms stated at their definitions.                               *)
(***************************************************************************)
EXTENDS Integers, Sequences, FiniteSets, TLC

\* Fixed-point unit: one is S thousandths.
S == 10 * 10 * 10

-----------------------------------------------------------------------------
(* Integer arithmetic *)

Abs(a) == IF a < 0 THEN -a ELSE a

\* Math.sign
Sign(a) == IF a > 0 THEN 1 ELSE IF a < 0 THEN -1 ELSE 0

\* Math.min, Math.max
Min(a, b) == IF a <= b THEN a ELSE b

Max(a, b) == IF a >= b THEN a ELSE b

\* Quotient rounded toward zero (b > 0).
Trunc(a, b) == IF a >= 0 THEN a \div b ELSE -((-a) \div b)

\* Product of two fixed-point numbers.
Mul(a, b) == Trunc(a * b, S)

\* The remainder operator % of the language: the sign is the dividend's.
JsRem(a, b) == IF a >= 0 THEN a % b ELSE -((-a) % b)

RECURSIVE SqrtSearch(_, _, _)
SqrtSearch(n, lo, hi) ==
    IF lo >= hi THEN lo
    ELSE LET mid == (lo + hi + 1) \div 2
         IN  IF mid * mid <= n THEN SqrtSearch(n, mid, hi)
             ELSE SqrtSearch(n, lo, mid - 1)

\* Math.sqrt, rounded down (n < 2^31).
ISqrt(n) == SqrtSearch(n, 0, 46340)

\* Math.sqrt, rounded up.
CeilSqrt(n) == LET r == ISqrt(n) IN IF r * r = n THEN r ELSE r + 1

RECURSIVE PowInt(_, _)
\* Math.pow(base, n) for a fixed-point base and a whole exponent n >= 0.
PowInt(base, n) == IF n = 0 THEN S ELSE Mul(PowInt(base, n - 1), base)

-----------------------------------------------------------------------------
(* Angles *)

\* Math.PI and 2 * Math.PI in thousandths of a radian.
PI == 3142

TWO_PI == 6283

\* x reduced into [0, 2*PI).
WrapAngle(x) == x % TWO_PI

\* Math.sin on [0, PI] by Bhaskara's rational form 16p / (5 PI^2 - 4p),
\* p = x (PI - x); it is within 0.002 of the sine.
SinHalf(x) ==
    LET p == Trunc(x * (PI - x), S)
    IN  Trunc(16 * S * p, 49348 - 4 * p)

\* Math.sin of an angle in thousandths of a radian.
Sin(x) ==
    LET w == WrapAngle(x)
    IN  IF w <= PI THEN SinHalf(w) ELSE -SinHalf(w - PI)

\* Math.cos.
Cos(x) == Sin(x + 1571)

\* Math.tan for |x| < 0.8 rad by its series x + x^3/3 + 2 x^5/15.
Tan(x) ==
    LET x2 == Mul(x, x)
        x3 == Mul(x2, x)
        x5 == Mul(x3, x2)
    IN  x + Trunc(x3, 3) + Trunc(2 * x5, 15)

\* THREE.MathUtils.radToDeg: thousandths of a radian to thousandths of a degree.
radToDeg(r) == Trunc(r * 57296, S)

\* THREE.MathUtils.degToRad: thousandths of a degree to thousandths of a radian.
degToRad(d) == Trunc(Trunc(d, 10) * 17453, 100000)

-----------------------------------------------------------------------------
(* Configuration (config.ts), in the units stated at the top *)

MAX_SPEED == 2000

MAX_THROTTLE == 500

THROTTLE_CHANGE_RATE == 10

MIN_THROTTLE_TO_MOVE == 10

HORIZONTAL_DECAY_RATE == 500

VERTICAL_DECAY_RATE == 200

THROTTLE_DECAY_RATE == 200

DEFAULT_ALTITUDE == 0

INITIAL_HEADING == 72000

DEFAULT_BEARING == 0

\* AIRCRAFT.CONTROLS.INPUT
PITCH_VALUE == 800

ROLL_VALUE == 800

YAW_VALUE == 800

VERTICAL_THRUST_VALUE == 100

THROTTLE_VALUE == 500

\* AIRCRAFT.CONTROLS.BANK
TARGET_LEFT == -35000

TARGET_RIGHT == 35000

MOMENTUM_FACTOR == 300

MOMENTUM_DAMPENING == 700

ANGLE_BLEND_FACTOR == 150

ANGLE_RETENTION_FACTOR == 850

MIN_ANGLE_FOR_TURN == 5000

STEEP_TURN_THRESHOLD == 25000

\* AIRCRAFT.CONTROLS.TURN
AIRSPEED_BASE_MULTIPLIER == 300

AIRSPEED_FACTOR == 300

MAX_TURN_RATE == 1200

TURN_RATE_BASE_FACTOR == 200

TURN_RATE_BLEND_FACTOR == 300

TURN_RATE_RETENTION_FACTOR == 700

BANK_COMPENSATION_DIVISOR == 45

BANK_COMPENSATION_FACTOR == 200

\* AIRCRAFT.CONTROLS.SMOOTHING and NO_THROTTLE_DECAY
DECAY_FACTOR == 800

BANK_ANGLE_DECAY == 900

TARGET_BANK_DECAY == 900

BANK_MOMENTUM_DECAY == 800

TURN_YAW_RATE_DECAY == 800

\* AIRCRAFT.PHYSICS
SENSITIVITY_PITCH == 70

SENSITIVITY_ROLL == 70

SENSITIVITY_YAW == 20

MAX_ANGULAR_VELOCITY == 1500

\* Math.PI / 2
MAX_ROTATION == 1571

STABILIZATION_RATE == 30

APPLY_TO_PITCH == TRUE

APPLY_TO_ROLL == TRUE

ROLL_VELOCITY_THRESHOLD == 1

OSCILLATION_MAGNITUDE_FACTOR == 5

OSCILLATION_FREQUENCY == 500

PITCH_COUPLING_MAGNITUDE_FACTOR == 2

YAW_VELOCITY_THRESHOLD == 200

BASE_DAMPING == 950

SPEED_DEPENDENT_FACTOR == 50

SPEED_DIVISOR == 15

PHYSICS_RATE == 60

THRUST_MULTIPLIER == 3000

PITCH_INFLUENCE == 3000

ROLL_FACTOR_MULTIPLIER == 2000

SPEED_INFLUENCE_BASE == 1000

SPEED_INFLUENCE_FACTOR == 50

SPEED_INFLUENCE_MAX == 2000

LIFT_LOSS_ANGLE_THRESHOLD == 700

LIFT_LOSS_VERTICAL_THRUST_THRESHOLD == 200

MAX_LOSS_FACTOR == 500

VERTICAL_THRUST_MULTIPLIER == 3000

\* MAP_MOVEMENT.SCALE_FACTOR: 0.00002 degrees, i.e. 20 millionths, per unit speed
MAP_SCALE_FACTOR == 20

\* MIN_SIGNIFICANT_CHANGE.BEARING (degrees) and .POSITION (0.000001 degrees)
MIN_CHANGE_BEARING == 500

MIN_CHANGE_POSITION == 1

VERTICAL_MOVEMENT_SIGNIFICANT_THRESHOLD == 300

\* 0.00001, which is below one thousandth: "above the threshold" is "above 0"
MOVEMENT_DETECTION_THRESHOLD == 0

\* MAP_BOUNDARY
BOUNDARY_ENABLED == TRUE

RADIUS_KM == 10000

FORCE_MULTIPLIER == 3000

WARNING_THRESHOLD == 850

HARD_BOUNDARY == TRUE

DISTANCE_CHECK_INTERVAL == 100

-----------------------------------------------------------------------------
(* Vectors *)

\* new THREE.Vector3(x, y, z); a THREE.Euler has the same three components
Vec3(x, y, z) == [x |-> x, y |-> y, z |-> z]

\* Vector3.length()
Length3(v) == ISqrt(v.x * v.x + v.y * v.y + v.z * v.z)

\* Vector2.length()
Length2(x, y) == ISqrt(x * x + y * y)

\* Vector2.length() of a vector in millionths of a degree: components beyond
\* 30000 are taken in hundreds so that the squares stay below 2^31
GeoLength(x, y) ==
    IF Max(Abs(x), Abs(y)) > 30000
    THEN 100 * Length2(Trunc(x, 100), Trunc(y, 100))
    ELSE Length2(x, y)

\* Vector3.normalize().multiplyScalar(m): the quotient is by the length rounded
\* up, so that rounding never lengthens the result beyond m
NormalizeScale3(v, m) ==
    LET len == CeilSqrt(v.x * v.x + v.y * v.y + v.z * v.z)
    IN  IF len = 0 THEN v
        ELSE Vec3(Trunc(v.x * m, len), Trunc(v.y * m, len), Trunc(v.z * m, len))

\* Vector2.normalize(): a unit vector in thousandths (the zero vector stays zero)
Normalize2(x, y) ==
    LET len == CeilSqrt(x * x + y * y)
    IN  IF len = 0 THEN <<0, 0>> ELSE <<Trunc(x * S, len), Trunc(y * S, len)>>

\* x^1.2 (Math.pow with ROLL_FACTOR_EXPONENT) by linear interpolation between
\* its values at 0, 0.1, 0.25, 0.5, 1, 2, 3, 4 and 8
Pow12Knots ==
    << <<0, 0>>, <<100, 63>>, <<250, 189>>, <<500, 435>>, <<1000, 1000>>,
       <<2000, 2297>>, <<3000, 3737>>, <<4000, 5278>>, <<8000, 12126>> >>

RECURSIVE Pow12From(_, _)
Pow12From(x, i) ==
    IF i < Len(Pow12Knots) - 1 /\ x > Pow12Knots[i + 1][1]
    THEN Pow12From(x, i + 1)
    ELSE LET a == Pow12Knots[i]
             b == Pow12Knots[i + 1]
         IN  a[2] + Trunc((x - a[1]) * (b[2] - a[2]), b[1] - a[1])

Pow12(x) == Pow12From(x, 1)

-----------------------------------------------------------------------------
(* math-helpers.ts *)

\* eulerToHPR: degrees from the Euler angles, the heading brought into 0..360
\* by one remainder and one conditional addition
eulerToHPR(euler) ==
    LET heading == JsRem(radToDeg(euler.y), 360 * S)
        normalizedHeading == IF heading < 0 THEN heading + 360 * S ELSE heading
    IN  [heading |-> normalizedHeading,
         pitch |-> radToDeg(euler.x),
         roll |-> radToDeg(euler.z)]

\* calculateGeoDistanceKm: the haversine distance, in metres.  For points a few
\* kilometres apart near latitude 10.8 it is R * sqrt(dLat^2 + cos(lat)^2 dLon^2)
\* to one part in a million: 0.1112 m per millionth of a degree of latitude and
\* 0.1092 m per millionth of a degree of longitude.
calculateGeoDistanceKm(lon1, lat1, lon2, lat2) ==
    LET dy == Trunc((lat2 - lat1) * 1112, 10000)
        dx == Trunc((lon2 - lon1) * 1092, 10000)
    IN  Length2(dx, dy)

\* calculateGeoDirection: the planar unit vector from one point to the other,
\* zero when they coincide
calculateGeoDirection(fromLon, fromLat, toLon, toLat) ==
    LET dLon == toLon - fromLon
        dLat == toLat - fromLat
        big == Max(Abs(dLon), Abs(dLat)) > 30000
        u == IF big THEN Trunc(dLon, 100) ELSE dLon
        v == IF big THEN Trunc(dLat, 100) ELSE dLat
        length == CeilSqrt(u * u + v * v)
    IN  IF dLon = 0 /\ dLat = 0 THEN [x |-> 0, y |-> 0]
        ELSE [x |-> Trunc(u * S, length), y |-> Trunc(v * S, length)]

-----------------------------------------------------------------------------
(* The state *)

VARIABLES
    state,            \* AircraftPhysics.state: the AircraftState record
    bankAngle,        \* banking physics, degrees
    targetBankAngle,
    bankMomentum,
    turnYawRate,
    prevControls,     \* the smoothed copy of the last processed control record
    lastUpdateTime,   \* ms, the timestamp of the last update call
    lastBoundaryCheck,\* _lastBoundaryCheck: ms of Date.now() at the last throttled check
    boundaryStatus,   \* this.boundaryStatus; state.boundaryStatus is the same object
    updateListeners,  \* the registered callbacks, in registration order
    hasUserInput,
    map,              \* the Mapbox map: loaded, center, bearing
    boundaryCenter,   \* MAP_BOUNDARY.CENTER (the DEFAULT_CENTER object)
    held,             \* the snapshot object a client holds, and what it still shares
    passed,           \* the snapshot object of the last notification
    last,             \* the last operation and what it did (observation only)
    steps,            \* operations performed so far
    driver            \* the frame loop driving the engine: its regime and frame time

vars ==
    <<state, bankAngle, targetBankAngle, bankMomentum, turnYawRate, prevControls,
      lastUpdateTime, lastBoundaryCheck, boundaryStatus, updateListeners,
      hasUserInput, map, boundaryCenter, held, passed, last, steps, driver>>

\* The engine with its collaborators as one record, the form the operations
\* below take and return.
World ==
    [state |-> state, bankAngle |-> bankAngle, targetBankAngle |-> targetBankAngle,
     bankMomentum |-> bankMomentum, turnYawRate |-> turnYawRate,
     prevControls |-> prevControls, lastUpdateTime |-> lastUpdateTime,
     lastBoundaryCheck |-> lastBoundaryCheck, boundaryStatus |-> boundaryStatus,
     updateListeners |-> updateListeners, hasUserInput |-> hasUserInput,
     map |-> map, boundaryCenter |-> boundaryCenter, held |-> held,
     passed |-> passed, last |-> last]

\* The variables take the fields of w.
Install(w) ==
    /\ state' = w.state
    /\ bankAngle' = w.bankAngle
    /\ targetBankAngle' = w.targetBankAngle
    /\ bankMomentum' = w.bankMomentum
    /\ turnYawRate' = w.turnYawRate
    /\ prevControls' = w.prevControls
    /\ lastUpdateTime' = w.lastUpdateTime
    /\ lastBoundaryCheck' = w.lastBoundaryCheck
    /\ boundaryStatus' = w.boundaryStatus
    /\ updateListeners' = w.updateListeners
    /\ hasUserInput' = w.hasUserInput
    /\ map' = w.map
    /\ boundaryCenter' = w.boundaryCenter
    /\ held' = w.held
    /\ passed' = w.passed
    /\ last' = w.last

\* A { lng, lat } object.  obj tells which object it is: "center" is the
\* exported DEFAULT_CENTER object, "fresh" an object made later.
LngLat(lng, lat, obj) == [lng |-> lng, lat |-> lat, obj |-> obj]

\* DEFAULT_CENTER, the origin of the map coordinates of the model.
DEFAULT_CENTER == LngLat(0, 0, "center")

\* An AircraftControls record.
Controls(pitch, roll, yaw, throttle, verticalThrust) ==
    [pitch |-> pitch, roll |-> roll, yaw |-> yaw, throttle |-> throttle,
     verticalThrust |-> verticalThrust]

\* The object getState() returns: a shallow copy of the state.  The scalar
\* fields are copies.  position, velocity, rotation and angularVelocity are the
\* engine's own vector objects and so are not fields of the copy here: reading
\* them through the copy reads the engine's state.  mapPosition and
\* boundaryStatus are the engine's objects too, until the engine puts new
\* objects in their place; the flags tell whether that has happened.
getState(w) ==
    [taken |-> TRUE,
     speed |-> w.state.speed, altitude |-> w.state.altitude,
     heading |-> w.state.heading, pitch |-> w.state.pitch, roll |-> w.state.roll,
     throttle |-> w.state.throttle,
     isFlying |-> w.state.isFlying, isGrounded |-> w.state.isGrounded,
     mapPosition |-> w.state.mapPosition, sharesMapPosition |-> TRUE,
     boundaryStatus |-> w.boundaryStatus, sharesBoundaryStatus |-> TRUE]

\* What an operation is observed to have done; each operation starts from this.
\* before holds the throttle, rotation, angular velocity and position an update
\* started from; order, the listeners in the order they were called; clamped,
\* whether applyControlInputs found pitch or roll beyond MAX_ROTATION; struck,
\* the velocity the hard boundary found, and from, the map position it found;
\* arg, the heading setHeading was called with; round, the listener array as
\* the notification found it; raw, the control record applyControlInputs was
\* called with; impact, the velocity a frame met the ground collision with;
\* applied, the applyControlInputs calls made.
Observed(op) ==
    [op |-> op, dt |-> 0, skipped |-> FALSE, idle |-> FALSE, checked |-> FALSE,
     boundary |-> "none", ground |-> "none", notified |-> 0, synced |-> "no",
     snapped |-> DEFAULT_CENTER, before |-> <<>>, order |-> <<>>, clamped |-> FALSE,
     struck |-> <<>>, from |-> DEFAULT_CENTER, arg |-> 0, round |-> <<>>,
     raw |-> Controls(0, 0, 0, 0, 0), impact |-> <<>>, applied |-> 0]

-----------------------------------------------------------------------------
(* AircraftPhysics.processControls and applyControlInputs *)

\* One smoothed control value: a non-zero input passes, a zero input decays the
\* previous smoothed value.
Smoothed(input, prev) == IF input # 0 THEN input ELSE Mul(prev, DECAY_FACTOR)

\* processControls: the banking state and prevControls after processing
\* rawControls; the processed controls it returns are the new prevControls.
processControls(w, rawControls) ==
    LET target1 ==
            IF rawControls.roll < 0 THEN TARGET_LEFT
            ELSE IF rawControls.roll > 0 THEN TARGET_RIGHT
            ELSE 0
        momentum1 ==
            IF rawControls.roll < 0 THEN w.bankMomentum - MOMENTUM_FACTOR
            ELSE IF rawControls.roll > 0 THEN w.bankMomentum + MOMENTUM_FACTOR
            ELSE Mul(w.bankMomentum, MOMENTUM_DAMPENING)
        coordinatedTurn == rawControls.throttle > 0 \/ rawControls.throttle < 0
        blending == coordinatedTurn /\ w.state.throttle > MIN_THROTTLE_TO_MOVE
        bank2 ==
            IF blending
            THEN Mul(w.bankAngle, ANGLE_RETENTION_FACTOR) + Mul(target1, ANGLE_BLEND_FACTOR)
            ELSE Mul(w.bankAngle, BANK_ANGLE_DECAY)
        airspeedMultiplier ==
            AIRSPEED_BASE_MULTIPLIER + Mul(Abs(w.state.throttle), AIRSPEED_FACTOR)
        turning == blending /\ Abs(bank2) > MIN_ANGLE_FOR_TURN
        bankRadians == degToRad(Abs(bank2))
        turnRate ==
            Min(MAX_TURN_RATE,
                Mul(Mul(TURN_RATE_BASE_FACTOR, Tan(bankRadians)), airspeedMultiplier))
        turnYaw2 ==
            IF turning
            THEN Mul(w.turnYawRate, TURN_RATE_RETENTION_FACTOR)
                 + Mul(turnRate, TURN_RATE_BLEND_FACTOR)
            ELSE IF blending THEN w.turnYawRate
            ELSE Mul(w.turnYawRate, TURN_YAW_RATE_DECAY)
        yaw ==
            IF turning /\ rawControls.yaw = 0 THEN Sign(bank2) * turnYaw2
            ELSE rawControls.yaw
        bankCompensation ==
            Mul(Trunc(Abs(bank2), BANK_COMPENSATION_DIVISOR), BANK_COMPENSATION_FACTOR)
        pitch ==
            IF turning /\ Abs(bank2) > STEEP_TURN_THRESHOLD /\ rawControls.pitch = 0
            THEN rawControls.pitch - bankCompensation
            ELSE rawControls.pitch
    IN  [w EXCEPT
            !.bankAngle = bank2,
            !.targetBankAngle =
                IF blending THEN target1 ELSE Mul(target1, TARGET_BANK_DECAY),
            !.bankMomentum =
                IF blending THEN momentum1 ELSE Mul(momentum1, BANK_MOMENTUM_DECAY),
            !.turnYawRate = turnYaw2,
            !.prevControls =
                Controls(Smoothed(pitch, w.prevControls.pitch),
                         Smoothed(rawControls.roll, w.prevControls.roll),
                         Smoothed(yaw, w.prevControls.yaw),
                         rawControls.throttle,
                         Smoothed(rawControls.verticalThrust,
                                  w.prevControls.verticalThrust))]

\* The clamp Math.max(-m, Math.min(m, x)).
ClampAbs(x, m) == Max(-m, Min(m, x))

\* The throttle after a throttle control, not limited to the range.
ThrottleUnclamped(throttle, control) == throttle + Mul(control, THROTTLE_CHANGE_RATE)

\* The throttle after a non-zero throttle control.
ThrottleAfterControl(throttle, control) ==
    Max(0, Min(MAX_THROTTLE, throttle + Mul(control, THROTTLE_CHANGE_RATE)))

\* The angular velocity after the control contribution, not limited.
AngularVelocityUnclamped(av, controls) ==
    Vec3(av.x + Mul(controls.pitch, SENSITIVITY_PITCH),
         av.y + Mul(controls.yaw, SENSITIVITY_YAW),
         av.z + Mul(controls.roll, SENSITIVITY_ROLL))

\* The angular velocity after the control contribution, clamped per axis.
AngularVelocityAfterControl(av, controls) ==
    Vec3(ClampAbs(av.x + Mul(controls.pitch, SENSITIVITY_PITCH), MAX_ANGULAR_VELOCITY),
         ClampAbs(av.y + Mul(controls.yaw, SENSITIVITY_YAW), MAX_ANGULAR_VELOCITY),
         ClampAbs(av.z + Mul(controls.roll, SENSITIVITY_ROLL), MAX_ANGULAR_VELOCITY))

\* The rotation left as the frames have integrated it.
UnclampedRotation(rotation) == rotation

\* The rotation with pitch and roll clamped to MAX_ROTATION.
ClampedRotation(rotation) ==
    Vec3(ClampAbs(rotation.x, MAX_ROTATION),
         rotation.y,
         ClampAbs(rotation.z, MAX_ROTATION))

\* applyControlInputs(rawControls)
applyControlInputs(w, rawControls) ==
    LET w1 == processControls(w, rawControls)
        controls == w1.prevControls
        st == w1.state
    IN  [w1 EXCEPT
            !.hasUserInput = TRUE,
            !.last.raw = rawControls,
            !.last.applied = @ + 1,
            !.last.clamped =
                Abs(st.rotation.x) > MAX_ROTATION \/ Abs(st.rotation.z) > MAX_ROTATION,
            !.state =
                [st EXCEPT
                    !.angularVelocity =
                        AngularVelocityAfterControl(st.angularVelocity, controls),
                    !.throttle =
                        IF controls.throttle # 0
                        THEN ThrottleAfterControl(st.throttle, controls.throttle)
                        ELSE st.throttle,
                    !.rotation = ClampedRotation(st.rotation)]]

-----------------------------------------------------------------------------
(* The geofence: updateBoundaryStatus, applyBoundaryForces, applyBoundaryForce *)

\* The BoundaryStatus the engine is constructed with.
InitialBoundaryStatus ==
    [distanceToCenter |-> 0, distanceToEdge |-> 0, percentToEdge |-> 0,
     isCrossingBoundary |-> FALSE, isNearBoundary |-> FALSE,
     directionToCenter |-> [x |-> 0, y |-> 0]]

\* Near from the warning threshold on, without an end.
IsNearWithoutEnd(percentToEdge) == percentToEdge >= WARNING_THRESHOLD

\* isNearBoundary: percentToEdge >= WARNING_THRESHOLD && percentToEdge < 1.
IsNearBoundary(percentToEdge) == percentToEdge >= WARNING_THRESHOLD /\ percentToEdge < S

\* updateBoundaryStatus: a new BoundaryStatus object from state.mapPosition and
\* MAP_BOUNDARY.CENTER; state.boundaryStatus is set to the same object.
updateBoundaryStatus(w) ==
    IF ~BOUNDARY_ENABLED THEN w
    ELSE
    LET mp == w.state.mapPosition
        center == w.boundaryCenter
        distanceToCenter == calculateGeoDistanceKm(mp.lng, mp.lat, center.lng, center.lat)
        distanceToEdge == RADIUS_KM - distanceToCenter
        percentToEdge == Trunc(distanceToCenter * S, RADIUS_KM)
        directionVector == calculateGeoDirection(mp.lng, mp.lat, center.lng, center.lat)
    IN  [w EXCEPT
          !.held.sharesBoundaryStatus = FALSE,
          !.passed.sharesBoundaryStatus = FALSE,
          !.boundaryStatus =
            [distanceToCenter |-> distanceToCenter,
             distanceToEdge |-> distanceToEdge,
             percentToEdge |-> percentToEdge,
             isCrossingBoundary |-> distanceToEdge <= 0,
             isNearBoundary |-> IsNearBoundary(percentToEdge),
             directionToCenter |-> [x |-> -directionVector.x, y |-> -directionVector.y]]]

\* applyBoundaryForce(forceMagnitude, deltaTime): velocity gains
\* forceDirection * forceMagnitude * deltaTime * 5 on the x and z axes.
applyBoundaryForce(w, forceMagnitude, dt) ==
    IF forceMagnitude <= 0 THEN w
    ELSE
    LET d == w.boundaryStatus.directionToCenter
        forceDirection == Normalize2(d.x, d.y)
        v == w.state.velocity
    IN  [w EXCEPT
            !.state.velocity =
                Vec3(v.x + Trunc(Mul(forceDirection[1], forceMagnitude) * dt * 5, S),
                     v.y,
                     v.z + Trunc(Mul(forceDirection[2], forceMagnitude) * dt * 5, S)),
            !.last.boundary = "push"]

\* The radius the hard boundary snaps to: RADIUS_KM * 0.00009 * 0.99 degrees,
\* in millionths of a degree.
SafeRadius == Trunc(Trunc(RADIUS_KM * 90, S) * 99, 100)

\* The hard boundary: mapPosition becomes a new object on the circle of
\* SafeRadius around the centre, and the outward part of the velocity
\* direction is taken off the velocity.  boundaryNormal is the vector already
\* scaled to SafeRadius (in degrees), so what is taken off is
\* normal * (direction . normal) * 1.2 * 0.8 with both factors below 0.001.
HardBoundary(w) ==
    LET mp == w.state.mapPosition
        center == w.boundaryCenter
        dx == mp.lng - center.lng
        dy == mp.lat - center.lat
        big == Max(Abs(dx), Abs(dy)) > 30000
        u == IF big THEN Trunc(dx, 100) ELSE dx
        t == IF big THEN Trunc(dy, 100) ELSE dy
        len == CeilSqrt(u * u + t * t)
        normalized == [x |-> Trunc(u * SafeRadius, len), y |-> Trunc(t * SafeRadius, len)]
        v == w.state.velocity
        velocityDirection == Normalize2(v.x, v.z)
        \* direction (thousandths) . normal (millionths of a degree): millionths
        dotProduct ==
            Trunc(velocityDirection[1] * normalized.x
                  + velocityDirection[2] * normalized.y, S)
        \* millionths * millionths * 0.96 is 10^-12; velocity is in 10^-3
        offX == Trunc(Trunc(normalized.x * dotProduct, S * S) * 960, S * S)
        offZ == Trunc(Trunc(normalized.y * dotProduct, S * S) * 960, S * S)
    IN  IF dx = 0 /\ dy = 0 THEN w
        ELSE [w EXCEPT
                !.state.mapPosition =
                    LngLat(center.lng + normalized.x, center.lat + normalized.y, "fresh"),
                !.held.sharesMapPosition = FALSE,
                !.passed.sharesMapPosition = FALSE,
                !.last.snapped =
                    LngLat(center.lng + normalized.x, center.lat + normalized.y, "fresh"),
                !.last.struck = v,
                !.last.from = mp,
                !.state.velocity =
                    IF dotProduct > 0 THEN Vec3(v.x - offX, v.y, v.z - offZ) ELSE v,
                !.last.boundary = "snap"]

\* applyBoundaryForces(deltaTime)
applyBoundaryForces(w, dt) ==
    IF ~BOUNDARY_ENABLED THEN w
    ELSE IF w.boundaryStatus.isCrossingBoundary
    THEN IF HARD_BOUNDARY THEN HardBoundary(w)
         ELSE applyBoundaryForce(w,
                  Mul(Abs(w.boundaryStatus.distanceToEdge), FORCE_MULTIPLIER) * 5, dt)
    ELSE IF w.boundaryStatus.isNearBoundary
    THEN LET boundaryProximity ==
                 Trunc((w.boundaryStatus.percentToEdge - WARNING_THRESHOLD) * S,
                       S - WARNING_THRESHOLD)
         IN  applyBoundaryForce(w, Mul(boundaryProximity, FORCE_MULTIPLIER) * 2, dt)
    ELSE w

-----------------------------------------------------------------------------
(* updateAircraftPhysics *)

\* Date.now() at a frame whose timestamp is currentTime: the wall clock and the
\* frame clock differ by a fixed offset, here one second.
DateNow(currentTime) == currentTime + S

\* Math.pow(base, deltaTime * PHYSICS_RATE); frames last whole multiples of
\* 1000 / PHYSICS_RATE * 3 ms, for which the exponent is whole.
PowFrames(base, dt) == PowInt(base, Trunc(dt * PHYSICS_RATE, S))

\* v * deltaTime
TimesDt(v, dt) == Trunc(v * dt, S)

\* The rotation after integration of the angular velocity, the roll
\* oscillation and the pitch coupling.
IntegratedRotation(rotation, av, dt, now) ==
    LET rolling == Abs(av.z) > ROLL_VELOCITY_THRESHOLD
        rollDirection == Sign(av.z)
        rollMagnitude == Abs(av.z)
        oscillationAmount ==
            Trunc(rollMagnitude * OSCILLATION_MAGNITUDE_FACTOR
                  * Sin(Trunc(now * S, OSCILLATION_FREQUENCY)), S * S)
        pitchCoupling == Mul(rollMagnitude, PITCH_COUPLING_MAGNITUDE_FACTOR) * (-rollDirection)
    IN  Vec3(rotation.x + TimesDt(av.x, dt)
                 + (IF rolling /\ Abs(av.y) < YAW_VELOCITY_THRESHOLD
                    THEN pitchCoupling ELSE 0),
             rotation.y + TimesDt(av.y, dt),
             rotation.z + TimesDt(av.z, dt) + (IF rolling THEN oscillationAmount ELSE 0))

\* The damping of the angular velocity: BASE_DAMPING plus the speed-dependent
\* part, to the power deltaTime * PHYSICS_RATE.
DampingFactor(speed, dt) ==
    LET speedFactor == Min(S, Trunc(speed, SPEED_DIVISOR))
    IN  PowFrames(BASE_DAMPING + Mul(SPEED_DEPENDENT_FACTOR, speedFactor), dt)

DampedAngularVelocity(av, speed, dt) ==
    LET f == DampingFactor(speed, dt)
    IN  Vec3(Mul(av.x, f), Mul(av.y, f), Mul(av.z, f))

\* The velocity after thrust, pitch and roll influence, lift loss and vertical
\* thrust, before drag.
ThrustedVelocity(st, rotation, verticalThrust, dt) ==
    LET forwardX == -Sin(rotation.y)
        forwardZ == -Cos(rotation.y)
        rightX == Cos(rotation.y)
        rightZ == -Sin(rotation.y)
        powered == st.throttle > MIN_THROTTLE_TO_MOVE
        forwardThrust == Mul(st.throttle, THRUST_MULTIPLIER)
        pitchFactor == Mul(rotation.x, PITCH_INFLUENCE)
        rollRadians == rotation.z
        rollFactor ==
            -Sign(rollRadians) * Pow12(Mul(Abs(rollRadians), ROLL_FACTOR_MULTIPLIER))
        speedInfluence ==
            SPEED_INFLUENCE_BASE + Mul(Trunc(st.speed, 20), SPEED_INFLUENCE_FACTOR)
        adjustedSpeedInfluence == Min(speedInfluence, SPEED_INFLUENCE_MAX)
        lateral == Mul(rollFactor, adjustedSpeedInfluence)
        liftLoss ==
            IF Abs(rollRadians) > LIFT_LOSS_ANGLE_THRESHOLD
               /\ verticalThrust < LIFT_LOSS_VERTICAL_THRUST_THRESHOLD
            THEN TimesDt(Mul(S - Cos(Abs(rollRadians)), MAX_LOSS_FACTOR), dt)
            ELSE 0
        verticalForce == Mul(verticalThrust, VERTICAL_THRUST_MULTIPLIER)
        v == st.velocity
    IN  Vec3(v.x + (IF powered
                    THEN TimesDt(Mul(forwardX, forwardThrust), dt)
                         + TimesDt(Mul(forwardX, pitchFactor), dt)
                         + TimesDt(Mul(rightX, lateral), dt)
                    ELSE 0),
             v.y - (IF powered THEN liftLoss ELSE 0)
                 + (IF verticalThrust # 0 THEN TimesDt(verticalForce, dt) ELSE 0),
             v.z + (IF powered
                    THEN TimesDt(Mul(forwardZ, forwardThrust), dt)
                         + TimesDt(Mul(forwardZ, pitchFactor), dt)
                         + TimesDt(Mul(rightZ, lateral), dt)
                    ELSE 0))

\* The drag: each component times 1 - rate * deltaTime.
DraggedVelocity(v, dt) ==
    Vec3(Mul(v.x, S - TimesDt(HORIZONTAL_DECAY_RATE, dt)),
         Mul(v.y, S - TimesDt(VERTICAL_DECAY_RATE, dt)),
         Mul(v.z, S - TimesDt(HORIZONTAL_DECAY_RATE, dt)))

\* A frame without user input that leaves the throttle as it is.
UndecayedThrottle(throttle, hasInput, dt) == throttle

\* The throttle decay of a frame without user input.
DecayedThrottle(throttle, hasInput, dt) ==
    IF ~hasInput /\ throttle > 0
    THEN Max(0, throttle - TimesDt(THROTTLE_DECAY_RATE, dt))
    ELSE throttle

\* The speed limit: a velocity longer than MAX_SPEED is scaled down to it.
LimitedVelocity(v) ==
    IF Length3(v) > MAX_SPEED THEN NormalizeScale3(v, MAX_SPEED) ELSE v

\* A frame without user input that multiplies pitch and roll by
\* (1 + STABILIZATION_RATE) to the frame's power.
DestabilizedRotation(rotation, hasInput, dt) ==
    LET f == PowFrames(S + STABILIZATION_RATE, dt)
    IN  IF hasInput THEN rotation
        ELSE Vec3(Mul(rotation.x, f), rotation.y, Mul(rotation.z, f))

\* The auto-stabilization of a frame without user input.
StabilizedRotation(rotation, hasInput, dt) ==
    LET f == PowFrames(S - STABILIZATION_RATE, dt)
    IN  IF hasInput THEN rotation
        ELSE Vec3(IF APPLY_TO_PITCH THEN Mul(rotation.x, f) ELSE rotation.x,
                  rotation.y,
                  IF APPLY_TO_ROLL THEN Mul(rotation.z, f) ELSE rotation.z)

\* The position after the frame with no ground under it.
Ungrounded(position) == position

\* The ground collision: a position below the ground is put on it.
GroundedPosition(position) ==
    IF position.y < 0 THEN Vec3(position.x, 0, position.z) ELSE position

\* A ground collision that stops every descent and never bounces.
StoppedVelocity(position, v) ==
    IF position.y < 0 THEN Vec3(v.x, 0, v.z) ELSE v

\* The velocity after the ground collision of a frame that integrated to
\* position: a bounce of a tenth of a fast descent, a stop of a slow one.
GroundedVelocity(position, v) ==
    IF position.y < 0 /\ v.y < -500
    THEN Vec3(Mul(v.x, 800), Mul(Abs(v.y), 100), Mul(v.z, 800))
    ELSE IF position.y < 0 THEN Vec3(v.x, 0, v.z)
    ELSE v

\* updateAircraftPhysics(deltaTime, now)
updateAircraftPhysics(w, dt, now) ==
    LET st == w.state
        rotation1 == IntegratedRotation(st.rotation, st.angularVelocity, dt, now)
        angularVelocity1 == DampedAngularVelocity(st.angularVelocity, st.speed, dt)
        velocity1 ==
            LimitedVelocity(
                DraggedVelocity(
                    ThrustedVelocity(st, rotation1, w.prevControls.verticalThrust, dt),
                    dt))
        throttle1 == DecayedThrottle(st.throttle, w.hasUserInput, dt)
        rotation2 == StabilizedRotation(rotation1, w.hasUserInput, dt)
        position1 ==
            Vec3(st.position.x + TimesDt(velocity1.x, dt),
                 st.position.y + TimesDt(velocity1.y, dt),
                 st.position.z + TimesDt(velocity1.z, dt))
        hit == position1.y < 0
        bounce == hit /\ velocity1.y < -500
        position2 == GroundedPosition(position1)
        velocity2 == GroundedVelocity(position1, velocity1)
        hpr == eulerToHPR(rotation2)
    IN  [w EXCEPT
            !.state =
                [st EXCEPT
                    !.rotation = rotation2,
                    !.angularVelocity = angularVelocity1,
                    !.velocity = velocity2,
                    !.throttle = throttle1,
                    !.position = position2,
                    !.heading = hpr.heading,
                    !.pitch = hpr.pitch,
                    !.roll = hpr.roll,
                    !.speed = Length3(velocity2),
                    !.altitude = position2.y,
                    !.isGrounded = position2.y <= 500,
                    !.isFlying = ~(position2.y <= 500)],
            !.last.ground = IF bounce THEN "bounce" ELSE IF hit THEN "stop" ELSE "none",
            !.last.impact = velocity1]

-----------------------------------------------------------------------------
(* updateMapPosition, the listeners and their notification *)

\* AircraftPhysics.updateMapPosition(mapPosition): the state takes the caller's
\* object, and the boundary status is recomputed.
updateMapPosition(w, mapPosition) ==
    LET w1 == [w EXCEPT !.state.mapPosition = mapPosition,
                        !.held.sharesMapPosition = FALSE,
                        !.passed.sharesMapPosition = FALSE]
    IN  IF BOUNDARY_ENABLED THEN updateBoundaryStatus(w1) ELSE w1

\* map.getBearing() after jumpTo({ bearing }): the map keeps its bearing
\* within (-180, 180] degrees.
MapBearing(bearing) ==
    LET b == bearing % (360 * S)
    IN  IF b > 180 * S THEN b - 360 * S ELSE b

\* ThreeJsManager.handlePhysicsUpdate(state) with its updateMapPosition: the
\* map centre moves along the nose by SCALE_FACTOR * speed, and the engine is
\* given the new centre (or the old one when the aircraft is not moving).
handlePhysicsUpdate(w, snapshot) ==
    LET v == w.state.velocity
        rotation == w.state.rotation
        horizontalVelocity == Length2(v.x, v.z)
        isActuallyMoving ==
            horizontalVelocity > MOVEMENT_DETECTION_THRESHOLD \/ snapshot.throttle > 10
        currentCenter == w.map.center
        forwardDirX == -Mul(Sin(rotation.y), Cos(rotation.x))
        forwardDirZ == -Mul(Cos(rotation.y), Cos(rotation.x))
        speedFactor == Length3(v)
        newLng == currentCenter.lng - Trunc(forwardDirX * MAP_SCALE_FACTOR * speedFactor, S * S)
        newLat == currentCenter.lat - Trunc(forwardDirZ * MAP_SCALE_FACTOR * speedFactor, S * S)
        newBearing == radToDeg(rotation.y)
        shouldUpdate ==
            isActuallyMoving \/ Abs(v.y) > VERTICAL_MOVEMENT_SIGNIFICANT_THRESHOLD
        hasMeaningfulChange ==
            \/ Abs(newBearing - w.map.bearing) > MIN_CHANGE_BEARING
            \/ Abs(newLat - currentCenter.lat) > MIN_CHANGE_POSITION
            \/ Abs(newLng - currentCenter.lng) > MIN_CHANGE_POSITION
    IN  IF shouldUpdate /\ hasMeaningfulChange
        THEN updateMapPosition(
                 [w EXCEPT !.map = [center |-> [lng |-> newLng, lat |-> newLat],
                                    bearing |-> MapBearing(newBearing)],
                           !.last.synced = "moved"],
                 LngLat(newLng, newLat, "fresh"))
        ELSE IF hasMeaningfulChange
        THEN updateMapPosition(
                 [w EXCEPT !.map.bearing = MapBearing(newBearing),
                           !.last.synced = "kept"],
                 LngLat(currentCenter.lng, currentCenter.lat, "fresh"))
        ELSE w

\* The first index of callback in the listener array, 0 when absent (indexOf).
RECURSIVE IndexFrom(_, _, _)
IndexFrom(listeners, callback, i) ==
    IF i > Len(listeners) THEN 0
    ELSE IF listeners[i] = callback THEN i
    ELSE IndexFrom(listeners, callback, i + 1)

\* removeUpdateListener(callback): the first occurrence is spliced out.
removeUpdateListener(w, callback) ==
    LET index == IndexFrom(w.updateListeners, callback, 1)
    IN  IF index = 0 THEN w
        ELSE [w EXCEPT !.updateListeners =
                  SubSeq(@, 1, index - 1) \o SubSeq(@, index + 1, Len(@))]

\* The control record of a listener that flies the aircraft: throttle up.
AutopilotControls == Controls(0, 0, 0, THROTTLE_VALUE, 0)

\* One listener called with the snapshot of the notification.  "sync" is
\* ThreeJsManager.handlePhysicsUpdate; "probe" is a listener that keeps the
\* snapshot object it is given; "autopilot" is a listener that answers each
\* notification with applyControlInputs; "once" is a listener that removes
\* itself when it is called.
CallListener(w, listener) ==
    LET w1 == [w EXCEPT !.last.notified = @ + 1, !.last.order = Append(@, listener)]
    IN  IF listener = "sync" THEN handlePhysicsUpdate(w1, w1.passed)
        ELSE IF listener = "autopilot" THEN applyControlInputs(w1, AutopilotControls)
        ELSE IF listener = "once" THEN removeUpdateListener(w1, "once")
        ELSE [w1 EXCEPT !.held = w1.passed]

RECURSIVE NotifyFrom(_, _)
\* The loop of notifyUpdateListeners from the i-th listener on, over the
\* listener array as it is when each turn begins.
NotifyFrom(w, i) ==
    IF i > Len(w.updateListeners) THEN w
    ELSE NotifyFrom(CallListener(w, w.updateListeners[i]), i + 1)

\* A notification that ends after the first listener.
NotifiesFirstOnly(w) ==
    LET w1 == [w EXCEPT !.passed = getState(w), !.last.round = w.updateListeners]
    IN  IF Len(w.updateListeners) = 0 THEN w1
        ELSE CallListener(w1, w.updateListeners[1])

\* notifyUpdateListeners: one getState() object handed to every listener.
notifyUpdateListeners(w) ==
    NotifyFrom([w EXCEPT !.passed = getState(w), !.last.round = w.updateListeners], 1)

\* onPhysicsUpdate(callback)
onPhysicsUpdate(w, callback) ==
    [w EXCEPT !.updateListeners = Append(@, callback)]

\* setHeading that takes the heading as it is given.
setHeadingAsGiven(w, headingDegrees) ==
    notifyUpdateListeners(
        [w EXCEPT !.last.arg = headingDegrees,
                  !.state.heading = headingDegrees,
                  !.state.rotation.y = degToRad(headingDegrees)])

\* setHeading(headingDegrees)
setHeading(w, headingDegrees) ==
    LET normalizedHeading == JsRem(JsRem(headingDegrees, 360 * S) + 360 * S, 360 * S)
    IN  notifyUpdateListeners(
            [w EXCEPT !.last.arg = headingDegrees,
                      !.state.heading = normalizedHeading,
                      !.state.rotation.y = degToRad(normalizedHeading)])

-----------------------------------------------------------------------------
(* update *)

\* A guard that lets every frame through.
NeverStalled(deltaTime) == FALSE

\* The guard of update against a stall: deltaTime > 0.1 s.
Stalled(deltaTime) == deltaTime > 100

\* The throttled boundary check of update: the status is recomputed when
\* more than DISTANCE_CHECK_INTERVAL has passed since the last check.
ThrottledBoundaryCheck(w, now) ==
    IF BOUNDARY_ENABLED /\ now - w.lastBoundaryCheck > DISTANCE_CHECK_INTERVAL
    THEN [updateBoundaryStatus(w) EXCEPT !.lastBoundaryCheck = now,
                                         !.last.checked = TRUE]
    ELSE w

\* The boundary forces of update: applied when the status is near or crossing.
BoundaryForcesIfNeeded(w, deltaTime) ==
    IF BOUNDARY_ENABLED
       /\ (w.boundaryStatus.isNearBoundary \/ w.boundaryStatus.isCrossingBoundary)
    THEN applyBoundaryForces(w, deltaTime)
    ELSE w

\* The frame of an update that was not skipped: the boundary check, the
\* physics, the boundary forces, the notification, and the input flag reset.
RunFrame(w, deltaTime, now) ==
    [notifyUpdateListeners(
         BoundaryForcesIfNeeded(
             updateAircraftPhysics(ThrottledBoundaryCheck(w, now), deltaTime, now),
             deltaTime))
     EXCEPT !.hasUserInput = FALSE]

\* update(currentTime)
update(w, currentTime) ==
    LET deltaTime == currentTime - w.lastUpdateTime
        w0 == [w EXCEPT !.lastUpdateTime = currentTime,
                        !.last.dt = deltaTime,
                        !.last.idle = ~w.hasUserInput,
                        !.last.before = [throttle |-> w.state.throttle,
                                         rotation |-> w.state.rotation,
                                         angularVelocity |-> w.state.angularVelocity,
                                         position |-> w.state.position]]
    IN  IF Stalled(deltaTime) THEN [w0 EXCEPT !.last.skipped = TRUE]
        ELSE RunFrame(w0, deltaTime, DateNow(currentTime))

\* The heading the instrument panel shows (mapAircraftState, updateFlightData):
\* (radToDeg(rotation.y) + 360) % 360.
HudHeading(rotation) == JsRem(radToDeg(rotation.y) + 360 * S, 360 * S)

-----------------------------------------------------------------------------
(* The engine after construction *)

\* No snapshot yet.
NoSnapshot ==
    [taken |-> FALSE, speed |-> 0, altitude |-> 0, heading |-> 0, pitch |-> 0,
     roll |-> 0, throttle |-> 0, isFlying |-> TRUE, isGrounded |-> FALSE,
     mapPosition |-> DEFAULT_CENTER, sharesMapPosition |-> FALSE,
     boundaryStatus |-> InitialBoundaryStatus, sharesBoundaryStatus |-> FALSE]

\* new AircraftPhysics(initialHeadingDegrees), beside a map created at
\* DEFAULT_CENTER with DEFAULT_BEARING; the frame clock starts at 0.
Constructed(initialHeadingDegrees) ==
    /\ state =
          [position |-> Vec3(0, DEFAULT_ALTITUDE, 0),
           velocity |-> Vec3(0, 0, 0),
           speed |-> 0,
           altitude |-> DEFAULT_ALTITUDE,
           heading |-> initialHeadingDegrees,
           pitch |-> 0,
           roll |-> 0,
           rotation |-> Vec3(0, degToRad(initialHeadingDegrees), 0),
           angularVelocity |-> Vec3(0, 0, 0),
           throttle |-> 0,
           isFlying |-> TRUE,
           isGrounded |-> FALSE,
           mapPosition |-> DEFAULT_CENTER]
    /\ bankAngle = 0
    /\ targetBankAngle = 0
    /\ bankMomentum = 0
    /\ turnYawRate = 0
    /\ prevControls = Controls(0, 0, 0, 0, 0)
    /\ lastUpdateTime = 0
    /\ lastBoundaryCheck = 0
    /\ boundaryStatus = InitialBoundaryStatus
    /\ hasUserInput = FALSE
    /\ map = [center |-> [lng |-> DEFAULT_CENTER.lng, lat |-> DEFAULT_CENTER.lat],
              bearing |-> DEFAULT_BEARING]
    /\ boundaryCenter = DEFAULT_CENTER
    /\ held = NoSnapshot
    /\ passed = NoSnapshot
    /\ last = Observed("constructor")
    /\ steps = 0

-----------------------------------------------------------------------------
(* The engine under any client: every public operation, any order *)

\* Operations per behaviour.
MaxSteps == 4

\* Listeners registered at a time.
MaxListeners == 2

\* The headings the engine is constructed with: north, and INITIAL_HEADING.
InitialHeadings == {0, INITIAL_HEADING}

\* Control records: no key; W, A, Q and Space held; S, D, E and Shift held;
\* values far beyond the keys' on every axis; the throttle reset value.
RawControls ==
    { Controls(0, 0, 0, 0, 0),
      Controls(-PITCH_VALUE, -ROLL_VALUE, -YAW_VALUE, THROTTLE_VALUE, VERTICAL_THRUST_VALUE),
      Controls(PITCH_VALUE, ROLL_VALUE, YAW_VALUE, -THROTTLE_VALUE, -VERTICAL_THRUST_VALUE),
      Controls(30 * S, -30 * S, 100 * S, 100 * S, -30 * S),
      Controls(0, 0, 0, -999 * S, 0) }

\* Frame intervals in ms: none, 50, 100, and 150 (beyond the 0.1 s guard).
Deltas == {0, 50, 100, 150}

\* Map positions handed to updateMapPosition: 9.7 km north of the centre
\* (inside the warning ring) and 11 km east of it (outside the circle).
MapPoints == { LngLat(0, 87230, "fresh"), LngLat(100733, 0, "fresh") }

\* Headings handed to setHeading, in thousandths of a degree.
Headings == { -90 * S, 450 * S }

\* The listeners a client registers.
Listeners == { "sync", "probe" }

Init ==
    /\ \E h \in InitialHeadings : Constructed(h)
    /\ updateListeners = <<>>
    /\ driver = [script |-> "any"]

\* The world as an operation named op finds it.
Entering(op) == [World EXCEPT !.last = Observed(op)]

ApplyControlInputs ==
    /\ steps < MaxSteps
    /\ \E rawControls \in RawControls :
           Install(applyControlInputs(Entering("applyControlInputs"), rawControls))
    /\ steps' = steps + 1
    /\ UNCHANGED driver

Update ==
    /\ steps < MaxSteps
    /\ \E dt \in Deltas : Install(update(Entering("update"), lastUpdateTime + dt))
    /\ steps' = steps + 1
    /\ UNCHANGED driver

UpdateMapPosition ==
    /\ steps < MaxSteps
    /\ \E p \in MapPoints : Install(updateMapPosition(Entering("updateMapPosition"), p))
    /\ steps' = steps + 1
    /\ UNCHANGED driver

SetHeading ==
    /\ steps < MaxSteps
    /\ \E d \in Headings : Install(setHeading(Entering("setHeading"), d))
    /\ steps' = steps + 1
    /\ UNCHANGED driver

OnPhysicsUpdate ==
    /\ steps < MaxSteps
    /\ Len(updateListeners) < MaxListeners
    /\ \E l \in Listeners : Install(onPhysicsUpdate(Entering("onPhysicsUpdate"), l))
    /\ steps' = steps + 1
    /\ UNCHANGED driver

RemoveUpdateListener ==
    /\ steps < MaxSteps
    /\ \E l \in Listeners :
           Install(removeUpdateListener(Entering("removeUpdateListener"), l))
    /\ steps' = steps + 1
    /\ UNCHANGED driver

Next ==
    \/ ApplyControlInputs
    \/ Update
    \/ UpdateMapPosition
    \/ SetHeading
    \/ OnPhysicsUpdate
    \/ RemoveUpdateListener

Spec == Init /\ [][Next]_vars

-----------------------------------------------------------------------------
(* Properties of the engine under any client *)

\* An update has just returned after running the physics of its frame.
Updated == last.op = "update" /\ ~last.skipped

\* C2 (speed cap).  Whenever update has run a frame and returns, and in the
\* snapshot its listeners were given, the velocity is no longer than MAX_SPEED,
\* also on frames where the boundary pushed or reflected.
C2_SpeedCap == Updated => Length3(state.velocity) <= MAX_SPEED

\* C4 (throttle range).  In every reachable state the throttle is within
\* 0 .. MAX_THROTTLE, whatever throttle values the control records carried.
C4_ThrottleRange == 0 <= state.throttle /\ state.throttle <= MAX_THROTTLE

\* C4: a control record with a throttle value far above the range has been
\* applied and the throttle stands at MAX_THROTTLE.
C4_Witness ==
    /\ last.op = "applyControlInputs"
    /\ prevControls.throttle = 100 * S
    /\ state.throttle = MAX_THROTTLE

\* C5 (angular-velocity range).  In every reachable state each component of
\* the angular velocity is within -MAX_ANGULAR_VELOCITY .. MAX_ANGULAR_VELOCITY,
\* and an update never lengthens a component.
C5_AngularVelocityRange ==
    /\ \A a \in {state.angularVelocity.x, state.angularVelocity.y, state.angularVelocity.z} :
           Abs(a) <= MAX_ANGULAR_VELOCITY
    /\ Updated =>
           /\ Abs(state.angularVelocity.x) <= Abs(last.before.angularVelocity.x)
           /\ Abs(state.angularVelocity.y) <= Abs(last.before.angularVelocity.y)
           /\ Abs(state.angularVelocity.z) <= Abs(last.before.angularVelocity.z)

\* C5: an update has damped an angular velocity that the controls had driven
\* to the limit on the pitch axis.
C5_Witness ==
    /\ Updated
    /\ last.dt > 0
    /\ last.before.angularVelocity.x = MAX_ANGULAR_VELOCITY
    /\ state.angularVelocity.x > 0
    /\ state.angularVelocity.x < MAX_ANGULAR_VELOCITY

\* C6 (ground clamp).  The aircraft is never below the ground when an
\* operation returns, the altitude is its height, and so it is in the snapshot
\* the listeners of an update were given.
C6_GroundClamp ==
    /\ state.position.y >= 0
    /\ state.altitude = state.position.y
    /\ (Updated /\ last.notified > 0) => passed.altitude = state.position.y

\* C6: an update has put a descending aircraft back on the ground and told a
\* listener.
C6_Witness ==
    /\ Updated
    /\ last.ground # "none"
    /\ last.notified > 0
    /\ state.position.y = 0

\* C24 (ground-collision response).  A frame whose integration took
\* position.y below 0 leaves position.y at 0; if it met the ground with a
\* vertical velocity below -0.5, the vertical velocity is a tenth of the impact
\* speed, upward, and the collision has multiplied both horizontal components
\* by 0.8; otherwise the vertical velocity is 0 and the collision has left the
\* horizontal ones alone.  The vertical velocity is not negative after it.  (The
\* horizontal components are compared on frames without a boundary force,
\* which acts on them after the collision.)
C24_GroundCollision ==
    (Updated /\ last.ground # "none") =>
        LET impact == last.impact
            calm == last.boundary = "none"
        IN  /\ state.position.y = 0
            /\ state.velocity.y >= 0
            /\ IF impact.y < -(S \div 2)
               THEN /\ state.velocity.y = Trunc(Abs(impact.y), 10)
                    /\ calm => /\ state.velocity.x = Trunc(impact.x * 8, 10)
                                /\ state.velocity.z = Trunc(impact.z * 8, 10)
               ELSE /\ state.velocity.y = 0
                    /\ calm => /\ state.velocity.x = impact.x
                                /\ state.velocity.z = impact.z

\* C24: a frame has met the ground at more than 0.5 downward with a horizontal
\* velocity, and has bounced.
C24_Witness ==
    /\ Updated
    /\ last.ground = "bounce"
    /\ last.boundary = "none"
    /\ last.impact.y < -(S \div 2)
    /\ last.impact.x # 0
    /\ state.velocity.y > 0
    /\ state.position.y = 0

\* C8 (derived speed).  Whenever update has run a frame and returns, the speed
\* field is the length of the velocity, in the state and in the snapshot the
\* listeners were given.
C8_SpeedIsCurrent ==
    Updated =>
        /\ state.speed = Length3(state.velocity)
        /\ last.notified > 0 => passed.speed = Length3(state.velocity)

\* C11 (stall guard).  An update called more than 100 ms after the update
\* before changes no field of the aircraft state, not the boundary status,
\* hands no snapshot to a listener and calls no listener; it records its
\* timestamp, from which the next update measures its interval.
C11_StallGuard ==
    [][(last'.op = "update" /\ last'.dt > 100) =>
          /\ state' = state
          /\ boundaryStatus' = boundaryStatus
          /\ passed' = passed
          /\ last'.notified = 0
          /\ lastUpdateTime' = lastUpdateTime + last'.dt]_vars

\* C11: a stalled update has returned, in an engine with a listener and a
\* throttle that a frame would have decayed.
C11_Witness ==
    /\ last.op = "update"
    /\ last.dt > 100
    /\ last.skipped
    /\ Len(updateListeners) > 0
    /\ state.throttle > 0
    /\ ~hasUserInput

SetHeadingItself ==
    /\ state'.heading = last'.arg % (360 * S)
    /\ state'.rotation.y = degToRad(state'.heading)
    /\ last'.order = updateListeners
    /\ passed'.heading = state'.heading
    /\ state'.position = state.position
    /\ state'.velocity = state.velocity
    /\ state'.angularVelocity = state.angularVelocity
    /\ state'.throttle = state.throttle
    /\ state'.rotation.x = state.rotation.x
    /\ state'.rotation.z = state.rotation.z

\* The map position (as a coordinate) and the boundary status stay as they are.
MapStateKept ==
    /\ state'.mapPosition.lng = state.mapPosition.lng
    /\ state'.mapPosition.lat = state.mapPosition.lat
    /\ boundaryStatus' = boundaryStatus

C17_GroundedFlags ==
    /\ state.isGrounded <=> state.position.y <= S \div 2
    /\ state.isFlying <=> ~state.isGrounded
    /\ passed.taken => (passed.isFlying <=> ~passed.isGrounded)

\* C26 (near and crossing are mutually exclusive).  In every reachable state
\* the boundary status of the engine, and the one of the snapshot last handed
\* to the listeners, is not near and crossing at once.
C26_NearExcludesCrossing ==
    /\ ~(boundaryStatus.isNearBoundary /\ boundaryStatus.isCrossingBoundary)
    /\ ~(passed.boundaryStatus.isNearBoundary /\ passed.boundaryStatus.isCrossingBoundary)

\* C26: the aircraft has been placed beyond the circle, past the warning
\* threshold, and a frame has handed the listeners a status that is crossing
\* and not near.
C26_Witness ==
    /\ Updated
    /\ last.notified > 0
    /\ boundaryStatus.percentToEdge >= S
    /\ boundaryStatus.isCrossingBoundary
    /\ ~boundaryStatus.isNearBoundary
    /\ passed.boundaryStatus.isCrossingBoundary

\* The target bank angle of a control record: TARGET_LEFT or TARGET_RIGHT by
\* the sign of its roll, level without roll.
TargetBank(rawControls) ==
    IF rawControls.roll < 0 THEN TARGET_LEFT
    ELSE IF rawControls.roll > 0 THEN TARGET_RIGHT
    ELSE 0

\* C22 (bank blending).  An applyControlInputs call that finds the throttle
\* above MIN_THROTTLE_TO_MOVE blends the bank angle toward the target of its
\* roll, bankAngle * ANGLE_RETENTION_FACTOR + target * ANGLE_BLEND_FACTOR,
\* whatever throttle input the record carries; a call that finds the throttle at
\* or below it decays bankAngle, targetBankAngle, bankMomentum and turnYawRate.
C22_BankBlending ==
    [][last'.op = "applyControlInputs" =>
          LET target == TargetBank(last'.raw)
          IN  IF state.throttle > MIN_THROTTLE_TO_MOVE
              THEN /\ bankAngle' = Mul(bankAngle, ANGLE_RETENTION_FACTOR)
                                     + Mul(target, ANGLE_BLEND_FACTOR)
                   /\ targetBankAngle' = target
              ELSE /\ bankAngle' = Mul(bankAngle, BANK_ANGLE_DECAY)
                   /\ targetBankAngle' = Mul(target, TARGET_BANK_DECAY)
                   /\ turnYawRate' = Mul(turnYawRate, TURN_YAW_RATE_DECAY)]_vars

-----------------------------------------------------------------------------
(* A client that writes into the snapshot it holds *)

\* The parts of a snapshot a client writes into.
SnapshotParts ==
    { "throttle", "velocity", "position", "rotation", "angularVelocity",
      "mapPosition", "boundaryStatus" }

\* The client assigns to one part of the snapshot object it holds: to the
\* throttle field, to a component of one of the vector objects, to lng of the
\* mapPosition object, to isNearBoundary of the boundaryStatus object.  The
\* assignment lands in whatever else holds the same object.
MutateHeld(w, part) ==
    LET moved == [w.held.mapPosition EXCEPT !.lng = @ + S]
        flipped == [w.held.boundaryStatus EXCEPT !.isNearBoundary = ~@]
        heldIsCenter == w.held.mapPosition.obj = "center"
        stateIsCenter == w.state.mapPosition.obj = "center"
        stateIsHeld ==
            IF heldIsCenter THEN stateIsCenter ELSE w.held.sharesMapPosition
    IN  CASE part = "throttle" -> [w EXCEPT !.held.throttle = MAX_THROTTLE]
          [] part = "velocity" -> [w EXCEPT !.state.velocity.x = 9 * S]
          [] part = "position" -> [w EXCEPT !.state.position.y = -5 * S]
          [] part = "rotation" -> [w EXCEPT !.state.rotation.x = 3 * S]
          [] part = "angularVelocity" -> [w EXCEPT !.state.angularVelocity.x = 9 * S]
          [] part = "mapPosition" ->
                [w EXCEPT
                    !.held.mapPosition = moved,
                    !.boundaryCenter = IF heldIsCenter THEN moved ELSE @,
                    !.state.mapPosition = IF stateIsHeld THEN moved ELSE @]
          [] part = "boundaryStatus" ->
                [w EXCEPT
                    !.held.boundaryStatus = flipped,
                    !.boundaryStatus = IF w.held.sharesBoundaryStatus THEN flipped ELSE @]

\* The client calls getState() and keeps the object.
GetState ==
    /\ steps < MaxSteps
    /\ Install([Entering("getState") EXCEPT !.held = getState(World)])
    /\ steps' = steps + 1
    /\ UNCHANGED driver

MutateSnapshot ==
    /\ steps < MaxSteps
    /\ held.taken
    /\ \E part \in SnapshotParts : Install(MutateHeld(Entering("mutate"), part))
    /\ steps' = steps + 1
    /\ UNCHANGED driver

NextSnapshot ==
    \/ Next
    \/ GetState
    \/ MutateSnapshot

SpecSnapshot == Init /\ [][NextSnapshot]_vars

\* C1 (snapshots are detached).  Writing into any part of a snapshot that
\* getState() returned or a listener was given leaves alone the state the
\* engine computes with and returns later.
C1_SnapshotsDetached ==
    [][last'.op = "mutate" => UNCHANGED <<state, boundaryStatus, boundaryCenter>>]_vars

-----------------------------------------------------------------------------
(* The game as GameManager sets it up, flown with one key held down *)

\* Frames flown per behaviour.
MaxFrames == 2600

\* The interval between frames, in ms.
FrameDelta == S \div 20

\* What the pilot holds: Space (throttle up), Q (yaw left) or W (pitch).
Scripts == { "cruise", "yaw", "pitch" }

\* The control record setupFlightControls builds while the key is held.
KeyControls(script) ==
    IF script = "cruise" THEN Controls(0, 0, 0, THROTTLE_VALUE, 0)
    ELSE IF script = "yaw" THEN Controls(0, 0, -YAW_VALUE, 0, 0)
    ELSE Controls(-PITCH_VALUE, 0, 0, 0, 0)

\* new GameManager(AIRCRAFT.INITIAL_HEADING) initialized: the engine, and
\* ThreeJsManager subscribed with handlePhysicsUpdate.
InitGame ==
    /\ Constructed(INITIAL_HEADING)
    /\ updateListeners = <<"sync">>
    /\ \E s \in Scripts : driver = [script |-> s, turn |-> "key", frames |-> 0]

\* The flight has shown what it was flown for: the hard boundary has snapped
\* the map position, or the panel heading has left 0..360.  A pitching flight
\* goes on for MaxFrames frames.
Flown ==
    \/ driver.script = "cruise" /\ last.boundary = "snap"
    \/ driver.script = "yaw" /\ HudHeading(state.rotation) < 0

\* A key event of the held key: the input handler's listener applies the
\* control record.
PilotKey ==
    /\ driver.turn = "key"
    /\ driver.frames < MaxFrames
    /\ ~Flown
    /\ Install(applyControlInputs(Entering("applyControlInputs"), KeyControls(driver.script)))
    /\ driver' = [driver EXCEPT !.turn = "frame"]
    /\ steps' = steps + 1

\* An animation frame: the loop calls update with the frame's timestamp.
PilotFrame ==
    /\ driver.turn = "frame"
    /\ Install(update(Entering("update"), lastUpdateTime + FrameDelta))
    /\ driver' = [driver EXCEPT !.turn = "key", !.frames = @ + 1]
    /\ steps' = steps + 1

NextPilot ==
    \/ PilotKey
    \/ PilotFrame

SpecPilot == InitGame /\ [][NextPilot]_vars

\* The distance of the state's map position from the boundary centre, as
\* updateBoundaryStatus measures it.
DistanceToCenter ==
    calculateGeoDistanceKm(state.mapPosition.lng, state.mapPosition.lat,
                           boundaryCenter.lng, boundaryCenter.lat)

\* C3 (the hard boundary holds end to end).  With the map synchronizer
\* subscribed, when an update that snapped the map position back inside the
\* circle returns, the map position is within the boundary radius of the centre.
C3_HardBoundaryHolds ==
    (Updated /\ last.boundary = "snap") => DistanceToCenter < RADIUS_KM

\* C7 (heading normalization).  The heading of the state and the heading the
\* instrument panel derives from rotation.y are within 0 .. 360 degrees, 360
\* excluded, however far the yaw has accumulated.
C7_HeadingNormalized ==
    /\ 0 <= state.heading /\ state.heading < 360 * S
    /\ 0 <= HudHeading(state.rotation) /\ HudHeading(state.rotation) < 360 * S

\* C18 (rotation clamp).  Right after any applyControlInputs call pitch and
\* roll are within MAX_ROTATION of level, whatever the frames before had
\* integrated them to.
C18_RotationClamp ==
    last.op = "applyControlInputs" =>
        /\ Abs(state.rotation.x) <= MAX_ROTATION
        /\ Abs(state.rotation.z) <= MAX_ROTATION

\* C18: a control call found the pitch beyond MAX_ROTATION and left it at
\* MAX_ROTATION.
C18_Witness ==
    /\ last.op = "applyControlInputs"
    /\ last.clamped
    /\ Abs(state.rotation.x) = MAX_ROTATION

-----------------------------------------------------------------------------
(* The game left alone after some flying *)

\* Operations of the flight before the controls are let go.
MaxSetup == 3

\* Frames of the idle stretch that are flown in any case; a stretch without
\* control calls goes on beyond them until the throttle is 0.
MaxIdleFrames == 12

\* Frame intervals of the flight before, and of the idle stretch, in ms.
SetupDeltas == {50, 100}

IdleDeltas == {0, 50, 100}

\* How the idle stretch is driven: "silent", no applyControlInputs call at
\* all; "zeros", a call with the all-zero record before every frame.
Regimes == { "silent", "zeros" }

InitIdle ==
    /\ Constructed(INITIAL_HEADING)
    /\ updateListeners = <<"sync">>
    /\ driver = [script |-> "idle", phase |-> "setup", regime |-> "silent",
                 dt |-> 0, turn |-> "frame", frames |-> 0, released |-> TRUE]

\* The idle stretch has frames left.
IdleGoesOn ==
    \/ driver.frames < MaxIdleFrames
    \/ driver.regime = "silent" /\ driver.dt > 0 /\ state.throttle > 0

\* The control records of the moment: any of them during the flight before,
\* the all-zero one alone once the controls are let go.
ControlsNow == IF driver.phase = "setup" THEN RawControls ELSE { Controls(0, 0, 0, 0, 0) }

\* The frame intervals of the moment: the idle stretch keeps its own.
DeltasNow == IF driver.phase = "setup" THEN SetupDeltas ELSE { driver.dt }

\* applyControlInputs, from a key event of the flight before or, in the
\* idle stretch, with all five values 0 before a frame.  released tells
\* whether the last record was the one of no key held.
IdleControl ==
    /\ IF driver.phase = "setup"
       THEN steps < MaxSetup
       ELSE driver.turn = "key" /\ IdleGoesOn
    /\ \E rawControls \in ControlsNow :
           /\ Install(applyControlInputs(Entering("applyControlInputs"), rawControls))
           /\ driver' = [driver EXCEPT
                            !.released = rawControls = Controls(0, 0, 0, 0, 0),
                            !.turn = IF driver.phase = "setup" THEN @ ELSE "frame"]
    /\ steps' = steps + 1

\* A frame of the animation loop, of the flight before or of the idle stretch.
IdleFrame ==
    /\ IF driver.phase = "setup"
       THEN steps < MaxSetup
       ELSE driver.turn = "frame" /\ IdleGoesOn
    /\ \E dt \in DeltasNow : Install(update(Entering("update"), lastUpdateTime + dt))
    /\ driver' = IF driver.phase = "setup"
                 THEN driver
                 ELSE [driver EXCEPT !.frames = @ + 1,
                                     !.turn = IF driver.regime = "zeros" THEN "key" ELSE "frame"]
    /\ steps' = steps + 1

\* The controls are let go after a frame: from here on the frames come at a
\* fixed interval, and no control record other than the all-zero one.
LetGo ==
    /\ driver.phase = "setup"
    /\ ~hasUserInput
    /\ \E regime \in Regimes, dt \in IdleDeltas :
           driver' = [driver EXCEPT !.phase = "idle", !.regime = regime, !.dt = dt,
                                    !.turn = IF regime = "zeros" THEN "key" ELSE "frame"]
    /\ UNCHANGED <<state, bankAngle, targetBankAngle, bankMomentum, turnYawRate,
                   prevControls, lastUpdateTime, lastBoundaryCheck, boundaryStatus,
                   updateListeners, hasUserInput, map, boundaryCenter, held, passed,
                   last, steps>>

NextIdle ==
    \/ IdleControl
    \/ IdleFrame
    \/ LetGo

\* The frame the idle stretch is waiting for, as the driver sees it: the steps
\* that change driver this way are the IdleFrame steps of the idle stretch.
FrameDue ==
    /\ driver.phase = "idle"
    /\ driver.turn = "frame"
    /\ IdleGoesOn
    /\ driver' = [driver EXCEPT !.frames = @ + 1,
                                !.turn = IF driver.regime = "zeros" THEN "key" ELSE "frame"]

\* The animation loop asks for its next frame in every frame, so frames keep
\* coming.
SpecIdle == InitIdle /\ [][NextIdle]_vars /\ WF_driver(FrameDue)

\* A frame of the idle stretch has just returned.
IdleUpdated == last.op = "update" /\ driver.phase = "idle"

\* C9 as claimed (idle throttle decay).  Over the frames of an idle stretch at
\* a fixed interval of at most 0.1 s, with no control call or with calls of the
\* all-zero record only, a throttle above 0 is lower after every frame.
C9_DecaysOnEveryZeroInputFrame ==
    (IdleUpdated /\ last.before.throttle > 0) => state.throttle < last.before.throttle

\* C9 as it holds.  A frame at an interval above 0 and at most 0.1 s that no
\* applyControlInputs call preceded since the frame before lowers a throttle
\* above 0, never below 0; and a stretch of such frames brings it to exactly 0.
C9_IdleThrottleDecay ==
    /\ [](IdleUpdated /\ last.idle /\ last.dt > 0 /\ last.before.throttle > 0
            => state.throttle < last.before.throttle /\ state.throttle >= 0)
    /\ (driver.phase = "idle" /\ driver.regime = "silent" /\ driver.dt > 0)
           ~> (state.throttle = 0)

\* C9: a frame without a control call before it has taken a throttle above 0
\* down to exactly 0.
C9_Witness ==
    /\ IdleUpdated
    /\ last.idle
    /\ driver.regime = "silent"
    /\ last.before.throttle > 0
    /\ state.throttle = 0

\* C10 as claimed (idle attitude relaxation).  Over the frames of an idle
\* stretch without control calls, |rotation.x| and |rotation.z| do not grow
\* from one frame to the next, whatever angular velocity is left over.
C10_NeverGrowsWhenIdle ==
    (IdleUpdated /\ last.idle) =>
        /\ Abs(state.rotation.x) <= Abs(last.before.rotation.x)
        /\ Abs(state.rotation.z) <= Abs(last.before.rotation.z)

\* C10 as it holds.  Over such frames |rotation.x| and |rotation.z| do not
\* grow once the angular velocity about the pitch and roll axes is 0.
C10_IdleAttitudeRelaxes ==
    (/\ IdleUpdated
     /\ last.idle
     /\ last.before.angularVelocity.x = 0
     /\ last.before.angularVelocity.z = 0) =>
        /\ Abs(state.rotation.x) <= Abs(last.before.rotation.x)
        /\ Abs(state.rotation.z) <= Abs(last.before.rotation.z)

\* C10: an idle frame has brought a pitch away from level closer to level,
\* the angular velocity about the pitch and roll axes having died out.
C10_Witness ==
    /\ IdleUpdated
    /\ last.idle
    /\ last.dt > 0
    /\ last.before.angularVelocity.x = 0
    /\ last.before.angularVelocity.z = 0
    /\ last.before.rotation.x # 0
    /\ Abs(state.rotation.x) < Abs(last.before.rotation.x)

\* C23 (control release glides to neutral).  Once the last control record was
\* the one of no key held, the controls are let go and no applyControlInputs
\* call arrives any more, every frame multiplies the
\* smoothed pitch, roll, yaw and vertical thrust the engine acts on by
\* DECAY_FACTOR, so that the vertical thrust the frames apply dies out.
C23_ReleaseGlidesToNeutral ==
    [][(last'.op = "update" /\ ~last'.skipped /\ driver.released
           /\ driver.phase = "idle" /\ driver.regime = "silent") =>
          /\ prevControls'.pitch = Mul(prevControls.pitch, DECAY_FACTOR)
          /\ prevControls'.roll = Mul(prevControls.roll, DECAY_FACTOR)
          /\ prevControls'.yaw = Mul(prevControls.yaw, DECAY_FACTOR)
          /\ prevControls'.verticalThrust =
                 Mul(prevControls.verticalThrust, DECAY_FACTOR)]_vars

-----------------------------------------------------------------------------
(* Clients that subscribe and unsubscribe *)

\* Calls per behaviour.
MaxCalls == 5

\* The engine, no listener yet; silenced holds the callbacks that were removed
\* and not registered again since.
InitListeners ==
    /\ Constructed(INITIAL_HEADING)
    /\ updateListeners = <<>>
    /\ driver = [script |-> "listeners", silenced |-> {}]

\* onPhysicsUpdate(l)
Subscribe ==
    /\ steps < MaxCalls
    /\ Len(updateListeners) < MaxListeners
    /\ \E l \in Listeners :
           /\ Install(onPhysicsUpdate(Entering("onPhysicsUpdate"), l))
           /\ driver' = [driver EXCEPT !.silenced = @ \ {l}]
    /\ steps' = steps + 1

\* removeUpdateListener(l)
Unsubscribe ==
    /\ steps < MaxCalls
    /\ \E l \in Listeners :
           /\ Install(removeUpdateListener(Entering("removeUpdateListener"), l))
           /\ driver' = [driver EXCEPT !.silenced = @ \cup {l}]
    /\ steps' = steps + 1

\* update, one frame later
ListenersFrame ==
    /\ steps < MaxCalls
    /\ Install(update(Entering("update"), lastUpdateTime + FrameDelta))
    /\ steps' = steps + 1
    /\ UNCHANGED driver

\* setHeading(d)
ListenersHeading ==
    /\ steps < MaxCalls
    /\ \E d \in Headings : Install(setHeading(Entering("setHeading"), d))
    /\ steps' = steps + 1
    /\ UNCHANGED driver

NextListeners ==
    \/ Subscribe
    \/ Unsubscribe
    \/ ListenersFrame
    \/ ListenersHeading

SpecListeners == InitListeners /\ [][NextListeners]_vars

\* C13 (unsubscribe).  Once removeUpdateListener(cb) has returned and cb has
\* not been registered again, no update and no setHeading calls cb.
C13_RemovedStaysSilent ==
    last.op \in { "update", "setHeading" } =>
        \A i \in 1..Len(last.order) : last.order[i] \notin driver.silenced

-----------------------------------------------------------------------------
(* The geofence under a client that places the aircraft on the map *)

\* Calls per behaviour.
MaxFenceCalls == 4

\* Map positions at half the radius and at nine tenths of it north of the
\* centre, and at eleven tenths of it east, south and west of the centre.
FencePoints ==
    { LngLat(0, 44964, "fresh"), LngLat(0, 80935, "fresh"),
      LngLat(100733, 0, "fresh"), LngLat(0, -98921, "fresh"),
      LngLat(-100733, 0, "fresh") }

\* Control records: throttle far beyond the key's, alone and with pitch down.
FenceControls == { Controls(0, 0, 0, 100 * S, 0), Controls(PITCH_VALUE, 0, 0, 100 * S, 0) }

\* Frame intervals in ms.
FenceDeltas == { 50, 100 }

\* The engine by itself, no listener subscribed.
InitFence ==
    /\ \E h \in InitialHeadings : Constructed(h)
    /\ updateListeners = <<>>
    /\ driver = [script |-> "fence"]

FenceMove ==
    /\ steps < MaxFenceCalls
    /\ \E p \in FencePoints : Install(updateMapPosition(Entering("updateMapPosition"), p))
    /\ steps' = steps + 1
    /\ UNCHANGED driver

FenceControl ==
    /\ steps < MaxFenceCalls
    /\ \E rawControls \in FenceControls :
           Install(applyControlInputs(Entering("applyControlInputs"), rawControls))
    /\ steps' = steps + 1
    /\ UNCHANGED driver

FenceFrame ==
    /\ steps < MaxFenceCalls
    /\ \E dt \in FenceDeltas : Install(update(Entering("update"), lastUpdateTime + dt))
    /\ steps' = steps + 1
    /\ UNCHANGED driver

NextFence ==
    \/ FenceMove
    \/ FenceControl
    \/ FenceFrame

SpecFence == InitFence /\ [][NextFence]_vars

\* C14 (boundary classification).  Right after updateMapPosition(p) the
\* boundary status is the one of p: crossing exactly when p is at the radius
\* or beyond, near exactly when p is at WARNING_THRESHOLD of the radius or
\* beyond and inside the radius.
C14_BoundaryClassification ==
    last.op = "updateMapPosition" =>
        /\ boundaryStatus.distanceToCenter = DistanceToCenter
        /\ boundaryStatus.isCrossingBoundary <=> DistanceToCenter >= RADIUS_KM
        /\ boundaryStatus.isNearBoundary <=>
               /\ DistanceToCenter * S >= WARNING_THRESHOLD * RADIUS_KM
               /\ DistanceToCenter < RADIUS_KM

\* C14: the aircraft has been placed at nine tenths of the radius, by the third
\* call or a later one, and is near and not crossing.
C14_Witness ==
    /\ last.op = "updateMapPosition"
    /\ DistanceToCenter * 10 >= RADIUS_KM * 9 - 10
    /\ DistanceToCenter * 10 <= RADIUS_KM * 9 + 10
    /\ boundaryStatus.isNearBoundary
    /\ ~boundaryStatus.isCrossingBoundary
    /\ steps >= 3

\* C15 (hard-boundary containment).  A frame that found the aircraft crossing,
\* away from the centre, puts the map position on the ray from the centre
\* through the position it found, at 0.99 of the boundary radius (taken here
\* as between 0.9 of the radius and the radius, whatever the direction).
C15_SnapsToSafetyCircle ==
    (Updated /\ last.boundary = "snap") =>
        LET c == boundaryCenter
            d == calculateGeoDistanceKm(last.snapped.lng, last.snapped.lat, c.lng, c.lat)
            fx == last.from.lng - c.lng
            fy == last.from.lat - c.lat
            sx == last.snapped.lng - c.lng
            sy == last.snapped.lat - c.lat
        IN  /\ state.mapPosition = last.snapped
            /\ Abs(fx * sy - fy * sx) <= Abs(fx) + Abs(fy)
            /\ fx * sx >= 0 /\ fy * sy >= 0
            /\ d <= RADIUS_KM
            /\ d * 10 >= RADIUS_KM * 9

\* dirToAircraft.clone().normalize() before it is scaled: the unit vector from
\* the boundary centre to the map position the frame found, in thousandths.
\* It is the outward normal of the boundary there, with longitude along the
\* velocity's x and latitude along its z as the boundary step pairs them.
OutwardNormal ==
    calculateGeoDirection(boundaryCenter.lng, boundaryCenter.lat,
                          last.from.lng, last.from.lat)

\* C19 (hard-boundary velocity reflection).  A frame that snapped the map
\* position leaves the vertical velocity alone; if the horizontal velocity it
\* found had a positive component along the unit outward normal, it takes
\* normal * component * 1.2 * 0.8 off the velocity (to within two thousandths
\* per axis), so that the outward component is strictly smaller afterwards; if
\* the component was not positive, the velocity is unchanged.
C19_ReflectsOutwardVelocity ==
    (Updated /\ last.boundary = "snap") =>
        LET n == OutwardNormal
            before == Trunc(last.struck.x * n.x + last.struck.z * n.y, S)
            after == Trunc(state.velocity.x * n.x + state.velocity.z * n.y, S)
            offX == Trunc(Mul(n.x, before) * 960, S)
            offZ == Trunc(Mul(n.y, before) * 960, S)
        IN  /\ state.velocity.y = last.struck.y
            /\ before > 0 =>
                   /\ Abs(state.velocity.x - (last.struck.x - offX)) <= 2
                   /\ Abs(state.velocity.z - (last.struck.z - offZ)) <= 2
                   /\ after < before
            /\ before <= 0 => state.velocity = last.struck

\* C20 (update step order).  On a frame where the boundary pushed on the
\* velocity and the ground was not hit, the push is already in that frame's
\* position: the aircraft has moved on x and z by the velocity the frame ends
\* with, times the frame interval.
C20_BoundaryBeforeIntegration ==
    (Updated /\ last.boundary = "push" /\ last.ground = "none") =>
        /\ state.position.x = last.before.position.x + TimesDt(state.velocity.x, last.dt)
        /\ state.position.z = last.before.position.z + TimesDt(state.velocity.z, last.dt)

\* C27 (boundary status matches position).  Once the boundary status has been
\* computed, whenever update has run a frame and returns and whenever
\* updateMapPosition returns, the status is the one of the map position the
\* state holds: its distance, and crossing and near by that distance.
C27_StatusMatchesPosition ==
    ((Updated \/ last.op = "updateMapPosition")
       /\ boundaryStatus # InitialBoundaryStatus) =>
        /\ boundaryStatus.distanceToCenter = DistanceToCenter
        /\ boundaryStatus.isCrossingBoundary <=> DistanceToCenter >= RADIUS_KM
        /\ boundaryStatus.isNearBoundary <=>
               IsNearBoundary(Trunc(DistanceToCenter * S, RADIUS_KM))

\* C25 (throttled boundary recompute).  A frame that runs recomputes the
\* boundary status exactly when DISTANCE_CHECK_INTERVAL or more has passed
\* since the recompute of an earlier frame, a gap of exactly the interval
\* included; a frame that does not recompute leaves the status as it is and
\* applies a boundary force whenever that status is near or crossing.
C25_ThrottledRecompute ==
    [][(last'.op = "update" /\ ~last'.skipped) =>
          LET gap == DateNow(lastUpdateTime') - lastBoundaryCheck
          IN  /\ last'.checked <=> gap >= DISTANCE_CHECK_INTERVAL
              /\ ~last'.checked =>
                     /\ boundaryStatus' = boundaryStatus
                     /\ (boundaryStatus.isNearBoundary
                            \/ boundaryStatus.isCrossingBoundary)
                           => last'.boundary # "none"]_vars

-----------------------------------------------------------------------------
(* Listeners that call back into the engine while they are notified *)

\* Calls per behaviour.
MaxReentrantCalls == 5

\* The listeners a client registers here.
ReentrantListeners == { "autopilot", "once", "probe" }

InitReentrant ==
    /\ Constructed(INITIAL_HEADING)
    /\ updateListeners = <<>>
    /\ driver = [script |-> "reentrant"]

\* onPhysicsUpdate(l)
ReentrantSubscribe ==
    /\ steps < MaxReentrantCalls
    /\ Len(updateListeners) < MaxListeners
    /\ \E l \in ReentrantListeners :
           Install(onPhysicsUpdate(Entering("onPhysicsUpdate"), l))
    /\ steps' = steps + 1
    /\ UNCHANGED driver

\* update, one frame later
ReentrantFrame ==
    /\ steps < MaxReentrantCalls
    /\ Install(update(Entering("update"), lastUpdateTime + FrameDelta))
    /\ steps' = steps + 1
    /\ UNCHANGED driver

NextReentrant ==
    \/ ReentrantSubscribe
    \/ ReentrantFrame

SpecReentrant == InitReentrant /\ [][NextReentrant]_vars

\* The listener l was called in the last notification.
Called(l) == \E i \in 1..Len(last.order) : last.order[i] = l

\* C21 (input-flag lifecycle).  applyControlInputs leaves the has-user-input
\* flag set; an update that ran its frame and whose notification had a
\* listener call applyControlInputs returns with the flag set, the flag having
\* been cleared before the listeners were called.
C21_ListenerInputSurvives ==
    /\ last.op = "applyControlInputs" => hasUserInput
    /\ (Updated /\ Called("autopilot")) => hasUserInput

\* How many times the listener l stands in the array listeners.
Registrations(listeners, l) ==
    Cardinality({ i \in 1..Len(listeners) : listeners[i] = l })

\* C28 (unsubscribing during a notification).  In the notification of a frame,
\* every listener that was registered when it began and of which no
\* registration was removed during it is called once for each of its
\* registrations, also when another listener removes itself meanwhile.
C28_RoundReachesEveryListener ==
    Updated =>
        \A l \in ReentrantListeners :
            Registrations(updateListeners, l) = Registrations(last.round, l)
                => Registrations(last.order, l) = Registrations(last.round, l)

-----------------------------------------------------------------------------
(* The game initialized, disposed and initialized again, under key events *)

\* Calls and key events per behaviour.
MaxGameCalls == 6

\* The keys that are pressed and released: W, A and Space.
GameKeys == { "w", "a", " " }

\* The control record the flight-control listener builds from the key state.
FlightControls(keyState) ==
    Controls(IF "w" \in keyState THEN -PITCH_VALUE
             ELSE IF "s" \in keyState THEN PITCH_VALUE ELSE 0,
             IF "a" \in keyState THEN -ROLL_VALUE
             ELSE IF "d" \in keyState THEN ROLL_VALUE ELSE 0,
             IF "q" \in keyState THEN -YAW_VALUE
             ELSE IF "e" \in keyState THEN YAW_VALUE ELSE 0,
             IF " " \in keyState THEN THROTTLE_VALUE
             ELSE IF "Shift" \in keyState THEN -THROTTLE_VALUE ELSE 0,
             IF "w" \in keyState THEN VERTICAL_THRUST_VALUE
             ELSE IF "s" \in keyState THEN -VERTICAL_THRUST_VALUE ELSE 0)

\* new GameManager(AIRCRAFT.INITIAL_HEADING): the engine, an input handler
\* that is not listening and has no listener, no ThreeJsManager.  keyState is
\* the set of keys the input handler holds as pressed.
InitLifecycle ==
    /\ Constructed(INITIAL_HEADING)
    /\ updateListeners = <<>>
    /\ driver = [script |-> "lifecycle", isInitialized |-> FALSE,
                 isListening |-> FALSE, listeners |-> 0, threeJsManager |-> FALSE,
                 keyState |-> {}]

\* GameManager.initialize: nothing when initialized already; otherwise a new
\* ThreeJsManager (which subscribes to the engine), startListening, and
\* setupFlightControls, which adds a listener to the input handler.
GameInitialize ==
    /\ steps < MaxGameCalls
    /\ IF driver.isInitialized
       THEN /\ Install(Entering("initialize"))
            /\ driver' = driver
       ELSE /\ Install(onPhysicsUpdate(Entering("initialize"), "sync"))
            /\ driver' = [driver EXCEPT !.isInitialized = TRUE,
                                        !.isListening = TRUE,
                                        !.listeners = @ + 1,
                                        !.threeJsManager = TRUE]
    /\ steps' = steps + 1

\* GameManager.dispose: nothing when not initialized; otherwise
\* stopListening, and the ThreeJsManager disposed (which unsubscribes from
\* the engine) and dropped.
GameDispose ==
    /\ steps < MaxGameCalls
    /\ IF ~driver.isInitialized
       THEN /\ Install(Entering("dispose"))
            /\ driver' = driver
       ELSE /\ Install(removeUpdateListener(Entering("dispose"), "sync"))
            /\ driver' = [driver EXCEPT !.isInitialized = FALSE,
                                        !.isListening = FALSE,
                                        !.threeJsManager = FALSE]
    /\ steps' = steps + 1

RECURSIVE NotifyKeyListeners(_, _, _)
\* InputHandler.notifyListeners: each of the n listeners is called with a copy
\* of the key state, and each applies the control record it builds from it
\* unless the ThreeJsManager is gone.
NotifyKeyListeners(w, n, keyState) ==
    IF n = 0 THEN w
    ELSE NotifyKeyListeners(
             IF driver.threeJsManager
             THEN applyControlInputs(w, FlightControls(keyState))
             ELSE w,
             n - 1, keyState)

\* A keydown or keyup event in the window: handleKeyDown or handleKeyUp runs
\* if the input handler is listening.
GameKey ==
    /\ steps < MaxGameCalls
    /\ \E key \in GameKeys, down \in BOOLEAN :
           LET keyState == IF down THEN driver.keyState \cup {key}
                           ELSE driver.keyState \ {key}
           IN  IF driver.isListening
               THEN /\ Install(NotifyKeyListeners(Entering("key"), driver.listeners,
                                                  keyState))
                    /\ driver' = [driver EXCEPT !.keyState = keyState]
               ELSE /\ Install(Entering("key"))
                    /\ driver' = driver
    /\ steps' = steps + 1

NextLifecycle ==
    \/ GameInitialize
    \/ GameDispose
    \/ GameKey

SpecLifecycle == InitLifecycle /\ [][NextLifecycle]_vars

\* C29 (one control record per key event).  After any sequence of initialize
\* and dispose calls, a key event that comes while the game is initialized
\* makes exactly one applyControlInputs call, and one that comes while it is
\* disposed makes none.
C29_OneControlRecordPerKeyEvent ==
    last.op = "key" =>
        last.applied = IF driver.isInitialized THEN 1 ELSE 0

====
